---- MODULE Spec2Model ----
(***************************************************************************)
(* The captive-portal page controller of static/js/portal.js (and the      *)
(* alternative acceptPortal build kept in unnamed/part_000) as a state     *)
(* machine.  One action is one browser task: an event handler or callback  *)
(* together with every microtask continuation it triggers, up to the next  *)
(* real suspension point (a geolocation callback, a network response, a    *)
(* body read, a timer tick, a page lifecycle event).                       *)
(***************************************************************************)
EXTENDS Integers, Sequences, FiniteSets, TLC

\* ---------------------------------------------------------------- bounds
\* Clicks on the accept button, callbacks of the repeating timer, times the
\* page is hidden and the closing of the page, together, in one page session.
MaxEvents == 3

\* Calls of fetchAd on one mounted useAdRecommendation hook: the one of the
\* mount effect and the refreshes.
MaxFetchAds == 3

\* ------------------------------------------------------- values and data
\* JavaScript null in a numeric payload field or in the timer handle.
Null == -1

\* A nullable object is a sequence: <<>> is null, <<x>> is the object x.
None == <<>>
Some(x) == <<x>>

\* Readings the geolocation source may deliver; accuracy2 is twice the
\* accuracy in metres, so that 25 stands for 12.5 m.
Positions ==
    { [latitude |-> 31, longitude |-> 121, accuracy2 |-> 25],
      [latitude |-> 39, longitude |-> 116, accuracy2 |-> 24] }

\* What one getCurrentPosition request ends with: the success callback with
\* a position, or the error callback (code 3 is TIMEOUT).
NoPosition == [latitude |-> 0, longitude |-> 0, accuracy2 |-> 0]
GeoOutcomes ==
    { [ok |-> TRUE, pos |-> p, code |-> 0] : p \in Positions }
        \cup { [ok |-> FALSE, pos |-> NoPosition, code |-> c] : c \in {3} }

\* Math.round on a non-negative number given in halves: round half up.
MathRound(x2) == (x2 + 1) \div 2

\* response.ok
ResponseOk(st) == st >= 200 /\ st <= 299

\* Responses of /api/v1/ad-recommend/.  net = FALSE: fetch rejected.
\* body: how response.json() ends ("garbage" throws, "null" yields null).
AdResponses ==
    { [net |-> FALSE, status |-> 0, body |-> "none"],
      [net |-> TRUE, status |-> 204, body |-> "none"],
      [net |-> TRUE, status |-> 500, body |-> "none"],
      [net |-> TRUE, status |-> 200, body |-> "garbage"],
      [net |-> TRUE, status |-> 200, body |-> "null"],
      [net |-> TRUE, status |-> 200, body |-> "ad"] }
NoResp == [net |-> FALSE, status |-> 0, body |-> "none"]

\* ------------------------------------------------------------- variables
VARIABLES
    variant,            \* which acceptPortal is loaded: "portal" | "part000"
    geoSupported,       \* navigator.geolocation exists
    beaconSupported,    \* navigator.sendBeacon exists
    page,               \* "loading" | "alive" | "gone"
    visibility,         \* document.visibilityState: "visible" | "hidden"
    status,             \* text of #status
    acceptStatus,       \* text of #accept-status, a sequence of text pieces
    panels,             \* style.display of #ad-card, #empty, #error
    btnDisabled,        \* #accept-btn .disabled
    lastGeo,            \* the cached fix: None or Some(fix)
    visitPingTimer,     \* the sentinel handle: Null or a setInterval id
    intervals,          \* repeating timers armed with setInterval
    unloadObservers,    \* listeners registered for beforeunload
    visibilityObservers,\* listeners registered for visibilitychange
    initGeo,            \* initPortal's acquisition: "none" | "pending" |
                        \* "fixed" | "failed"
    ads,                \* the requestAd calls
    accepts,            \* the acceptPortal calls
    pings,              \* the postVisitPing calls awaiting tryGetGeo
    pingFetches,        \* the postVisitPing calls awaiting their fetch
    wire,               \* heartbeat requests handed to a transport, in order
    uncaught,           \* a promise rejection that nobody handles happened
    events,             \* clicks, timer callbacks and hides so far
    leaveOccasions,     \* times the page was hidden or closed, heartbeat on
    startCalls,         \* calls of startVisitPingLoop so far
    mounted,            \* the component using useAdRecommendation is mounted
    ad,                 \* hook state ad: None or Some(ad)
    loading,            \* hook state loading
    error,              \* hook state error: None or Some(message)
    locationDenied,     \* hook state locationDenied
    fetchAds            \* the fetchAd calls of the hook, in starting order

envVars == <<variant, geoSupported, beaconSupported>>
domVars == <<status, acceptStatus, panels, btnDisabled>>
hbVars == <<visitPingTimer, intervals, unloadObservers, visibilityObservers,
            pings, pingFetches, wire, startCalls>>
hookVars == <<mounted, ad, loading, error, locationDenied, fetchAds>>
vars == <<variant, geoSupported, beaconSupported, page, visibility,
          status, acceptStatus, panels, btnDisabled, lastGeo,
          visitPingTimer, intervals, unloadObservers, visibilityObservers,
          initGeo, ads, accepts, pings, pingFetches, wire, uncaught,
          events, leaveOccasions, startCalls,
          mounted, ad, loading, error, locationDenied, fetchAds>>

RemoveAt(s, i) == SubSeq(s, 1, i - 1) \o SubSeq(s, i + 1, Len(s))

\* --------------------------------------------------------------- requestAd
requestAdShow_errorKeepsCard(outcome, old) ==
    CASE outcome = "Empty" ->
            [panels |-> [adCard |-> "none", empty |-> "block", error |-> "none"],
             status |-> "no targeted ad, showing the generic hint"]
      [] outcome = "Found" ->
            [panels |-> [adCard |-> "block", empty |-> "none", error |-> "none"],
             status |-> "matched an ad for you"]
      [] OTHER ->
            [panels |-> [adCard |-> old.adCard, empty |-> "none", error |-> "block"],
             status |-> "ad load failed"]

\* The three panels and the status line as each exit of requestAd leaves
\* them; old is the panel state before.
requestAdShow(outcome, old) ==
    CASE outcome = "Empty" ->
            [panels |-> [adCard |-> "none", empty |-> "block", error |-> "none"],
             status |-> "no targeted ad, showing the generic hint"]
      [] outcome = "Found" ->
            [panels |-> [adCard |-> "block", empty |-> "none", error |-> "none"],
             status |-> "matched an ad for you"]
      [] OTHER ->
            [panels |-> [adCard |-> "none", empty |-> "none", error |-> "block"],
             status |-> "ad load failed"]

requestAdOnResponse_noContentIsFailure(r) ==
    IF ~r.net THEN "Error"
    ELSE IF ~ResponseOk(r.status) \/ r.status = 204 THEN "Error"
    ELSE "json"

\* requestAd when fetch settles: the exit taken, or "json" when it goes on
\* to await response.json().
requestAdOnResponse(r) ==
    IF ~r.net THEN "Error"
    ELSE IF r.status = 204 THEN "Empty"
    ELSE IF ~ResponseOk(r.status) THEN "Error"
    ELSE "json"

\* requestAd when response.json() settles: a body that does not parse
\* throws, and so does reading data.title of null.
requestAdOnBody(r) ==
    IF r.body \in {"garbage", "null"} THEN "Error" ELSE "Found"

\* The synchronous start of requestAd(latitude, longitude): the payload is
\* built and posted.
requestAd(lat, lon) ==
    [pc |-> "fetch", latitude |-> lat, longitude |-> lon,
     resp |-> NoResp, outcome |-> "pending"]

\* -------------------------------------------------------------- tryGetGeo
\* The payload fields read from a nullable fix: geo?.latitude ?? null, ...
geoPayload(geo) ==
    IF geo = None
    THEN [latitude |-> Null, longitude |-> Null, accuracy_m |-> Null]
    ELSE [latitude |-> geo[1].latitude, longitude |-> geo[1].longitude,
          accuracy_m |-> geo[1].accuracy_m]

tryGetGeo_rejects(o, cache) ==
    IF o.ok
    THEN LET fix == [latitude |-> o.pos.latitude,
                     longitude |-> o.pos.longitude,
                     accuracy_m |-> MathRound(o.pos.accuracy2)]
         IN [settled |-> "resolved", value |-> Some(fix), lastGeo |-> Some(fix)]
    ELSE [settled |-> "rejected", value |-> None, lastGeo |-> cache]

tryGetGeo_clearsOnError(o, cache) ==
    IF o.ok
    THEN LET fix == [latitude |-> o.pos.latitude,
                     longitude |-> o.pos.longitude,
                     accuracy_m |-> MathRound(o.pos.accuracy2)]
         IN [settled |-> "resolved", value |-> Some(fix), lastGeo |-> Some(fix)]
    ELSE [settled |-> "resolved", value |-> None, lastGeo |-> None]

\* The promise of tryGetGeo once its getCurrentPosition request ends with
\* outcome o: how it settles, the value it settles with, and the cache
\* after it; cache is lastGeo before.
tryGetGeo(o, cache) ==
    IF o.ok
    THEN LET fix == [latitude |-> o.pos.latitude,
                     longitude |-> o.pos.longitude,
                     accuracy_m |-> MathRound(o.pos.accuracy2)]
         IN [settled |-> "resolved", value |-> Some(fix), lastGeo |-> Some(fix)]
    ELSE [settled |-> "resolved", value |-> None, lastGeo |-> cache]

\* ---------------------------------------------------------- postVisitPing
\* The heartbeat state the functions below transform.
Heartbeat ==
    [visitPingTimer |-> visitPingTimer, intervals |-> intervals,
     unloadObservers |-> unloadObservers,
     visibilityObservers |-> visibilityObservers,
     pings |-> pings, pingFetches |-> pingFetches, wire |-> wire,
     startCalls |-> startCalls]

postVisitPingSend_leaveStopsTimer(event, origin, geo, h) ==
    LET p == geoPayload(geo)
        req(t) == [event |-> event, origin |-> origin, transport |-> t,
                   latitude |-> p.latitude, longitude |-> p.longitude,
                   accuracy_m |-> p.accuracy_m]
    IN IF event = "leave" /\ beaconSupported
       THEN [h EXCEPT !.wire = Append(@, req("beacon")),
                      !.visitPingTimer = Null, !.intervals = 0]
       ELSE [h EXCEPT !.wire = Append(@, req("fetch")),
                      !.pingFetches = @ + 1]

\* postVisitPing from the point where geo is known: build the payload and
\* hand it to sendBeacon (the call then returns) or to fetch (the call then
\* awaits the response).
postVisitPingSend(event, origin, geo, h) ==
    LET p == geoPayload(geo)
        req(t) == [event |-> event, origin |-> origin, transport |-> t,
                   latitude |-> p.latitude, longitude |-> p.longitude,
                   accuracy_m |-> p.accuracy_m]
    IN IF event = "leave" /\ beaconSupported
       THEN [h EXCEPT !.wire = Append(@, req("beacon"))]
       ELSE [h EXCEPT !.wire = Append(@, req("fetch")),
                      !.pingFetches = @ + 1]

postVisitPing_alwaysAcquires(event, origin, h) ==
    IF ~geoSupported THEN postVisitPingSend(event, origin, None, h)
    ELSE [h EXCEPT !.pings = Append(@, [event |-> event, origin |-> origin])]

\* postVisitPing(event) up to its first real suspension.  With a cached fix
\* nothing is awaited; without geolocation tryGetGeo resolves null at once
\* and the send follows in the same task; otherwise the call waits for its
\* own getCurrentPosition request.
postVisitPing(event, origin, h) ==
    IF lastGeo # None THEN postVisitPingSend(event, origin, lastGeo, h)
    ELSE IF ~geoSupported THEN postVisitPingSend(event, origin, None, h)
    ELSE [h EXCEPT !.pings = Append(@, [event |-> event, origin |-> origin])]

\* ------------------------------------------------------ startVisitPingLoop
startVisitPingLoop_noSentinel(h) ==
    LET p == postVisitPing("ping", "start", h)
    IN [p EXCEPT !.visitPingTimer = p.intervals + 1,
                 !.intervals = @ + 1,
                 !.unloadObservers = @ + 1,
                 !.visibilityObservers = @ + 1,
                 !.startCalls = @ + 1]

\* startVisitPingLoop(): return at once when the sentinel is set; otherwise
\* call postVisitPing("ping"), arm the interval (setInterval returns a
\* positive handle) and register the two observers.
startVisitPingLoop(h) ==
    IF h.visitPingTimer # Null THEN [h EXCEPT !.startCalls = @ + 1]
    ELSE LET p == postVisitPing("ping", "start", h)
         IN [p EXCEPT !.visitPingTimer = p.intervals + 1,
                      !.intervals = @ + 1,
                      !.unloadObservers = @ + 1,
                      !.visibilityObservers = @ + 1,
                      !.startCalls = @ + 1]

\* onLeave run once by each of n observers of one event.
RECURSIVE onLeaveTimes(_, _)
onLeaveTimes(n, h) ==
    IF n = 0 THEN h ELSE onLeaveTimes(n - 1, postVisitPing("leave", "leave", h))

\* ------------------------------------------------------------ acceptPortal
\* A field a JSON object does not have.
Absent == -2

Venue12 == [name |-> "Cafe X", category |-> "food", distance_m |-> 12]
VenueNoDistance == [name |-> "Book Y", category |-> "retail", distance_m |-> Null]

\* Bodies of a 2xx accept response.  parse: "garbage" makes res.json()
\* throw, "null" makes it yield null, "object" an object with the fields
\* given ("absent" where the object lacks the field).
AcceptBody(parse, ok, venue, auth) ==
    [parse |-> parse, ok |-> ok, venue |-> venue, is_authenticated |-> auth]
NoBody == AcceptBody("none", "absent", None, "absent")
AcceptBodies ==
    { AcceptBody("garbage", "absent", None, "absent"),
      AcceptBody("null", "absent", None, "absent"),
      AcceptBody("object", "true", Some(Venue12), "absent"),
      AcceptBody("object", "true", Some(VenueNoDistance), "absent"),
      AcceptBody("object", "true", None, "absent"),
      AcceptBody("object", "false", None, "absent"),
      AcceptBody("object", "absent", None, "true"),
      AcceptBody("object", "absent", None, "false") }

\* What acceptPortal's fetch settles with: a rejection (net = FALSE) or a
\* response with a status; the body is read afterwards.
AcceptResponses ==
    { [net |-> FALSE, status |-> 0, body |-> NoBody],
      [net |-> TRUE, status |-> 500, body |-> NoBody],
      [net |-> TRUE, status |-> 200, body |-> NoBody] }
NoAcceptResp == [net |-> FALSE, status |-> 0, body |-> NoBody]

\* The texts acceptPortal writes to #accept-status, as sequences of pieces.
\* Every success text begins "accepted" and every failure text "accept
\* failed", as the source's texts begin with the same two words.
MsgSubmitting == <<"submitting">>
MsgOkVenue(v) ==
    <<"accepted", ". venue: ", v.name, " (", v.category, "), distance about ",
      IF v.distance_m = Null THEN "?" ELSE ToString(v.distance_m), "m">>
MsgOkNoVenue == <<"accepted", ". but no nearby venue matched">>
MsgRejected == <<"accept failed", ": abnormal status returned">>
MsgFailed == <<"accept failed", ", retry later">>
MsgHttp(st) == <<"accept failed", ": returned status ", ToString(st)>>
MsgNotEffective == <<"accept not effective", ", retry later">>
MsgOkPlain == <<"accepted", ", you may go online">>
MsgNetFailed == <<"accept failed", ": network or server error">>

\* The request body of part_000's acceptPortal: JSON.stringify({}).
EmptyBody == [latitude |-> Absent, longitude |-> Absent, accuracy_m |-> Absent]

\* The call record of acceptPortal at its first real suspension.
acceptPortalCall(v) ==
    IF v = "part000"
    THEN [pc |-> "fetch", geo |-> "unused", request |-> Some(EmptyBody),
          resp |-> NoAcceptResp]
    ELSE IF lastGeo # None
    THEN [pc |-> "fetch", geo |-> "cached", request |-> Some(geoPayload(lastGeo)),
          resp |-> NoAcceptResp]
    ELSE IF ~geoSupported
    THEN [pc |-> "fetch", geo |-> "unsupported", request |-> Some(geoPayload(None)),
          resp |-> NoAcceptResp]
    ELSE [pc |-> "geo", geo |-> "pending", request |-> None, resp |-> NoAcceptResp]

acceptPortalStart_noDisable(v) ==
    [btnDisabled |-> btnDisabled, acceptStatus |-> MsgSubmitting,
     call |-> acceptPortalCall(v)]

\* acceptPortal() from the click to its first suspension: disable the
\* button, show the submitting text, enter the try block.
acceptPortalStart(v) ==
    [btnDisabled |-> TRUE, acceptStatus |-> MsgSubmitting,
     call |-> acceptPortalCall(v)]

\* The catch block's text.
acceptPortalCatch(v) == IF v = "portal" THEN MsgFailed ELSE MsgNetFailed

\* acceptPortal when fetch settles: exit "json" goes on to res.json().
acceptPortalOnResponse(v, r) ==
    IF ~r.net THEN [exit |-> "catch", msg |-> acceptPortalCatch(v)]
    ELSE IF ~ResponseOk(r.status)
    THEN IF v = "portal"
         THEN [exit |-> "catch", msg |-> acceptPortalCatch(v)]
         ELSE [exit |-> "return", msg |-> MsgHttp(r.status)]
    ELSE [exit |-> "json", msg |-> MsgSubmitting]

acceptPortalOnBody_startOnlyWithVenue(v, b) ==
    IF v = "portal"
    THEN IF b.parse \in {"garbage", "null"}
         THEN [exit |-> "catch", msg |-> acceptPortalCatch(v), start |-> FALSE]
         ELSE IF b.ok = "true"
         THEN [exit |-> "return", start |-> b.venue # None,
               msg |-> IF b.venue # None THEN MsgOkVenue(b.venue[1])
                       ELSE MsgOkNoVenue]
         ELSE [exit |-> "return", msg |-> MsgRejected, start |-> FALSE]
    ELSE IF b.parse = "object" /\ b.is_authenticated = "false"
         THEN [exit |-> "return", msg |-> MsgNotEffective, start |-> FALSE]
         ELSE [exit |-> "return", msg |-> MsgOkPlain, start |-> FALSE]

acceptPortalOnBody_rejectionThrows(v, b) ==
    IF v = "portal"
    THEN IF b.parse \in {"garbage", "null"}
         THEN [exit |-> "catch", msg |-> acceptPortalCatch(v), start |-> FALSE]
         ELSE IF b.ok = "true"
         THEN [exit |-> "return", start |-> TRUE,
               msg |-> IF b.venue # None THEN MsgOkVenue(b.venue[1])
                       ELSE MsgOkNoVenue]
         ELSE [exit |-> "catch", msg |-> acceptPortalCatch(v), start |-> FALSE]
    ELSE IF b.parse = "object" /\ b.is_authenticated = "false"
         THEN [exit |-> "return", msg |-> MsgNotEffective, start |-> FALSE]
         ELSE [exit |-> "return", msg |-> MsgOkPlain, start |-> FALSE]

acceptPortalOnBody_startsOnRejection(v, b) ==
    IF v = "portal"
    THEN IF b.parse \in {"garbage", "null"}
         THEN [exit |-> "catch", msg |-> acceptPortalCatch(v), start |-> FALSE]
         ELSE IF b.ok = "true"
         THEN [exit |-> "return", start |-> TRUE,
               msg |-> IF b.venue # None THEN MsgOkVenue(b.venue[1])
                       ELSE MsgOkNoVenue]
         ELSE [exit |-> "return", msg |-> MsgRejected, start |-> TRUE]
    ELSE IF b.parse = "object" /\ b.is_authenticated = "false"
         THEN [exit |-> "return", msg |-> MsgNotEffective, start |-> FALSE]
         ELSE [exit |-> "return", msg |-> MsgOkPlain, start |-> FALSE]

\* acceptPortal when res.json() settles, for body b: the exit, the text and
\* whether startVisitPingLoop() is called.
acceptPortalOnBody(v, b) ==
    IF v = "portal"
    THEN IF b.parse \in {"garbage", "null"}
         THEN [exit |-> "catch", msg |-> acceptPortalCatch(v), start |-> FALSE]
         ELSE IF b.ok = "true"
         THEN [exit |-> "return", start |-> TRUE,
               msg |-> IF b.venue # None THEN MsgOkVenue(b.venue[1])
                       ELSE MsgOkNoVenue]
         ELSE [exit |-> "return", msg |-> MsgRejected, start |-> FALSE]
    ELSE IF b.parse = "object" /\ b.is_authenticated = "false"
         THEN [exit |-> "return", msg |-> MsgNotEffective, start |-> FALSE]
         ELSE [exit |-> "return", msg |-> MsgOkPlain, start |-> FALSE]

acceptPortalFinally_onlyOnReturn(exit) == exit = "catch"

\* finally { btn.disabled = false }: the value of btn.disabled after the
\* call left the try block through exit.
acceptPortalFinally(exit) == FALSE

\* --------------------------------------------------------------- initPortal
initPortal_speculative(supported) ==
    [status |-> "fetching ad",
     initGeo |-> IF supported THEN "pending" ELSE "none",
     calls |-> <<requestAd(Null, Null)>>]

\* initPortal(): without geolocation request the ad with nulls at once,
\* otherwise start the FAST getCurrentPosition request and wait.
initPortal(supported) ==
    IF ~supported
    THEN [status |-> "fetching ad", initGeo |-> "none",
          calls |-> <<requestAd(Null, Null)>>]
    ELSE [status |-> "requesting location", initGeo |-> "pending",
          calls |-> <<>>]

initPortalOnGeo_dropError(o) ==
    IF o.ok
    THEN [status |-> "fetching ad",
          calls |-> <<requestAd(o.pos.latitude, o.pos.longitude)>>]
    ELSE [status |-> "location failed", calls |-> <<>>]

\* The two callbacks of initPortal's getCurrentPosition: each sets the
\* status and calls requestAd, which sets the status again.
initPortalOnGeo(o) ==
    IF o.ok
    THEN [status |-> "fetching ad",
          calls |-> <<requestAd(o.pos.latitude, o.pos.longitude)>>]
    ELSE [status |-> "fetching ad", calls |-> <<requestAd(Null, Null)>>]

\* ------------------------------------------------------------------- Init
\* The inline display of the three panels before requestAd first sets them
\* comes from the page's markup.
DisplayValues == {"none", "block"}
InitialPanels ==
    { [adCard |-> a, empty |-> e, error |-> x] :
        a \in DisplayValues, e \in DisplayValues, x \in DisplayValues }

InitWith(markup) ==
    /\ variant \in {"portal", "part000"}
    /\ geoSupported \in BOOLEAN
    /\ beaconSupported \in BOOLEAN
    /\ page = "loading"
    /\ visibility = "visible"
    /\ status = ""
    /\ acceptStatus = <<>>
    /\ panels \in markup
    /\ btnDisabled = FALSE
    /\ lastGeo = None
    /\ visitPingTimer = Null
    /\ intervals = 0
    /\ unloadObservers = 0
    /\ visibilityObservers = 0
    /\ initGeo = "none"
    /\ ads = <<>>
    /\ accepts = <<>>
    /\ pings = <<>>
    /\ pingFetches = 0
    /\ wire = <<>>
    /\ uncaught = FALSE
    /\ events = 0
    /\ leaveOccasions = 0
    /\ startCalls = 0
    /\ mounted = FALSE
    /\ ad = None
    /\ loading = TRUE
    /\ error = None
    /\ locationDenied = FALSE
    /\ fetchAds = <<>>

Init == InitWith(InitialPanels)

\* The page runs script: loaded and not yet destroyed.
Running == page = "alive"

SetHeartbeat(h) ==
    /\ visitPingTimer' = h.visitPingTimer
    /\ intervals' = h.intervals
    /\ unloadObservers' = h.unloadObservers
    /\ visibilityObservers' = h.visibilityObservers
    /\ pings' = h.pings
    /\ pingFetches' = h.pingFetches
    /\ wire' = h.wire
    /\ startCalls' = h.startCalls

\* ------------------------------------------------- page load and ad lookup
\* The DOMContentLoaded handler: initPortal().
DOMContentLoaded ==
    /\ page = "loading"
    /\ page' = "alive"
    /\ LET r == initPortal(geoSupported)
       IN /\ status' = r.status
          /\ initGeo' = r.initGeo
          /\ ads' = ads \o r.calls
    /\ UNCHANGED <<hookVars, envVars, visibility, acceptStatus, panels, btnDisabled,
                   lastGeo, hbVars, accepts, uncaught, events, leaveOccasions>>

\* A callback of initPortal's getCurrentPosition request.
InitGeoSettle ==
    /\ Running
    /\ initGeo = "pending"
    /\ \E o \in GeoOutcomes :
         LET r == initPortalOnGeo(o)
         IN /\ status' = r.status
            /\ ads' = ads \o r.calls
            /\ initGeo' = IF o.ok THEN "fixed" ELSE "failed"
    /\ UNCHANGED <<hookVars, envVars, page, visibility, acceptStatus, panels,
                   btnDisabled, lastGeo, hbVars, accepts, uncaught, events,
                   leaveOccasions>>

\* requestAd's fetch settles.
AdResponse ==
    /\ Running
    /\ \E i \in DOMAIN ads, r \in AdResponses :
         /\ ads[i].pc = "fetch"
         /\ LET x == requestAdOnResponse(r)
            IN IF x = "json"
               THEN /\ ads' = [ads EXCEPT ![i].pc = "json", ![i].resp = r]
                    /\ UNCHANGED <<status, panels>>
               ELSE /\ ads' = [ads EXCEPT ![i].pc = "done", ![i].resp = r,
                                          ![i].outcome = x]
                    /\ status' = requestAdShow(x, panels).status
                    /\ panels' = requestAdShow(x, panels).panels
    /\ UNCHANGED <<hookVars, envVars, page, visibility, acceptStatus, btnDisabled,
                   lastGeo, hbVars, initGeo, accepts, uncaught, events,
                   leaveOccasions>>

\* requestAd's response.json() settles.
AdBody ==
    /\ Running
    /\ \E i \in DOMAIN ads :
         /\ ads[i].pc = "json"
         /\ LET x == requestAdOnBody(ads[i].resp)
            IN /\ ads' = [ads EXCEPT ![i].pc = "done", ![i].outcome = x]
               /\ status' = requestAdShow(x, panels).status
               /\ panels' = requestAdShow(x, panels).panels
    /\ UNCHANGED <<hookVars, envVars, page, visibility, acceptStatus, btnDisabled,
                   lastGeo, hbVars, initGeo, accepts, uncaught, events,
                   leaveOccasions>>

\* ------------------------------------------------------------------ accept
\* A click on #accept-btn; a disabled button dispatches no click event.
\* Calls that have returned are forgotten when the next one starts.
Click ==
    /\ page = "alive"
    /\ visibility = "visible"
    /\ ~btnDisabled
    /\ events < MaxEvents
    /\ events' = events + 1
    /\ LET s == acceptPortalStart(variant)
       IN /\ btnDisabled' = s.btnDisabled
          /\ acceptStatus' = s.acceptStatus
          /\ accepts' = Append(SelectSeq(accepts, LAMBDA c : c.pc # "done"),
                               s.call)
    /\ UNCHANGED <<hookVars, envVars, page, visibility, status, panels, lastGeo, hbVars,
                   initGeo, ads, uncaught, leaveOccasions>>

\* The getCurrentPosition request of acceptPortal's tryGetGeo ends.
AcceptGeoSettle ==
    /\ Running
    /\ \E i \in DOMAIN accepts, o \in GeoOutcomes :
         /\ accepts[i].pc = "geo"
         /\ LET g == tryGetGeo(o, lastGeo)
            IN /\ lastGeo' = g.lastGeo
               /\ IF g.settled = "resolved"
                  THEN /\ accepts' = [accepts EXCEPT
                              ![i].pc = "fetch",
                              ![i].geo = IF g.value = None THEN "failed"
                                         ELSE "acquired",
                              ![i].request = Some(geoPayload(g.value))]
                       /\ UNCHANGED <<btnDisabled, acceptStatus>>
                  ELSE /\ accepts' = [accepts EXCEPT ![i].pc = "done",
                                                     ![i].geo = "rejected"]
                       /\ acceptStatus' = acceptPortalCatch(variant)
                       /\ btnDisabled' = acceptPortalFinally("catch")
    /\ UNCHANGED <<hookVars, envVars, page, visibility, status, panels, hbVars, initGeo,
                   ads, uncaught, events, leaveOccasions>>

\* acceptPortal's fetch settles.
AcceptResponse ==
    /\ Running
    /\ \E i \in DOMAIN accepts, r \in AcceptResponses :
         /\ accepts[i].pc = "fetch"
         /\ LET x == acceptPortalOnResponse(variant, r)
            IN IF x.exit = "json"
               THEN /\ accepts' = [accepts EXCEPT ![i].pc = "json",
                                                  ![i].resp = r]
                    /\ UNCHANGED <<btnDisabled, acceptStatus>>
               ELSE /\ accepts' = [accepts EXCEPT ![i].pc = "done",
                                                  ![i].resp = r]
                    /\ acceptStatus' = x.msg
                    /\ btnDisabled' = acceptPortalFinally(x.exit)
    /\ UNCHANGED <<hookVars, envVars, page, visibility, status, panels, lastGeo, hbVars,
                   initGeo, ads, uncaught, events, leaveOccasions>>

\* acceptPortal's res.json() settles, having read body b.
AcceptJson ==
    /\ Running
    /\ \E i \in DOMAIN accepts, b \in AcceptBodies :
         /\ accepts[i].pc = "json"
         /\ LET x == acceptPortalOnBody(variant, b)
            IN /\ SetHeartbeat(IF x.start THEN startVisitPingLoop(Heartbeat)
                               ELSE Heartbeat)
               /\ acceptStatus' = x.msg
               /\ btnDisabled' = acceptPortalFinally(x.exit)
         /\ accepts' = [accepts EXCEPT ![i].pc = "done", ![i].resp.body = b]
    /\ UNCHANGED <<hookVars, envVars, page, visibility, status, panels, lastGeo,
                   initGeo, ads, uncaught, events, leaveOccasions>>

\* --------------------------------------------------------------- heartbeat
\* A callback of the repeating timer.
TimerTick ==
    /\ Running
    /\ intervals > 0
    /\ events < MaxEvents
    /\ events' = events + 1
    /\ SetHeartbeat(postVisitPing("ping", "timer", Heartbeat))
    /\ UNCHANGED <<hookVars, envVars, page, visibility, domVars, lastGeo, initGeo, ads,
                   accepts, uncaught, leaveOccasions>>

\* The getCurrentPosition request of a postVisitPing's tryGetGeo ends.
PingGeoSettle ==
    /\ Running
    /\ \E i \in DOMAIN pings, o \in GeoOutcomes :
         LET g == tryGetGeo(o, lastGeo)
             rest == [Heartbeat EXCEPT !.pings = RemoveAt(pings, i)]
         IN /\ lastGeo' = g.lastGeo
            /\ IF g.settled = "resolved"
               THEN /\ SetHeartbeat(postVisitPingSend(pings[i].event,
                                        pings[i].origin, g.value, rest))
                    /\ UNCHANGED uncaught
               ELSE /\ SetHeartbeat(rest)
                    /\ uncaught' = TRUE
    /\ UNCHANGED <<hookVars, envVars, page, visibility, domVars, initGeo, ads, accepts,
                   events, leaveOccasions>>

PingFetchSettle_showsFailure ==
    /\ Running
    /\ pingFetches > 0
    /\ pingFetches' = pingFetches - 1
    /\ \E delivered \in BOOLEAN :
         /\ uncaught' = IF delivered THEN uncaught ELSE TRUE
         /\ status' = IF delivered THEN status ELSE "heartbeat failed"
    /\ UNCHANGED <<hookVars, envVars, page, visibility, acceptStatus, panels,
                   btnDisabled, lastGeo, visitPingTimer, intervals,
                   unloadObservers, visibilityObservers, pings, wire,
                   startCalls, initGeo, ads, accepts, events, leaveOccasions>>

\* The keepalive fetch of a postVisitPing settles; nothing handles its
\* rejection (every caller writes void postVisitPing(...)).
PingFetchSettle ==
    /\ Running
    /\ pingFetches > 0
    /\ pingFetches' = pingFetches - 1
    /\ \E delivered \in BOOLEAN :
         uncaught' = IF delivered THEN uncaught ELSE TRUE
    /\ UNCHANGED <<hookVars, envVars, page, visibility, domVars, lastGeo,
                   visitPingTimer, intervals, unloadObservers,
                   visibilityObservers, pings, wire, startCalls, initGeo, ads,
                   accepts, events, leaveOccasions>>

\* ---------------------------------------------------------- page lifecycle
\* The visibilitychange observers, run with document.visibilityState = v.
onVisibilityChange(v, h) ==
    IF v = "hidden" THEN onLeaveTimes(h.visibilityObservers, h) ELSE h

\* One more occasion on which the page is hidden or closed while the
\* heartbeat runs.
CountOccasion ==
    leaveOccasions' = IF visitPingTimer # Null THEN leaveOccasions + 1
                      ELSE leaveOccasions

\* The user switches away: visibilitychange with state "hidden".
Hide ==
    /\ page = "alive"
    /\ visibility = "visible"
    /\ events < MaxEvents
    /\ events' = events + 1
    /\ visibility' = "hidden"
    /\ CountOccasion
    /\ SetHeartbeat(onVisibilityChange("hidden", Heartbeat))
    /\ UNCHANGED <<hookVars, envVars, page, domVars, lastGeo, initGeo, ads, accepts,
                   uncaught>>

\* The user comes back: visibilitychange with state "visible".
Show ==
    /\ page = "alive"
    /\ visibility = "hidden"
    /\ visibility' = "visible"
    /\ SetHeartbeat(onVisibilityChange("visible", Heartbeat))
    /\ UNCHANGED <<hookVars, envVars, page, domVars, lastGeo, initGeo, ads, accepts,
                   uncaught, events, leaveOccasions>>

\* The page is closed while loaded: the beforeunload observers run, then,
\* when the page was visible, the visibilitychange observers with state
\* "hidden", and the document is destroyed; no callback runs afterwards.
Close ==
    /\ page = "alive"
    /\ events < MaxEvents
    /\ events' = events + 1
    /\ page' = "gone"
    /\ visibility' = "hidden"
    /\ CountOccasion
    /\ LET h == onLeaveTimes(unloadObservers, Heartbeat)
       IN SetHeartbeat(IF visibility = "visible"
                       THEN onVisibilityChange("hidden", h) ELSE h)
    /\ UNCHANGED <<hookVars, envVars, domVars, lastGeo, initGeo, ads, accepts, uncaught>>

\* ------------------------------------------------- useAdRecommendation
\* GeolocationPositionError.PERMISSION_DENIED
PERMISSION_DENIED == 1

\* What the hook's getCurrentPosition request ends with: as GeoOutcomes, and
\* the error callback with code PERMISSION_DENIED.
HookGeoOutcomes ==
    GeoOutcomes \cup {[ok |-> FALSE, pos |-> NoPosition, code |-> PERMISSION_DENIED]}

\* The messages of the errors that sendRequest catches.
ErrFetch == <<"Failed to fetch">>
ErrHttp(st) == <<"Ad recommend request failed: ", ToString(st)>>
ErrBody == <<"body stream error">>
ErrJson == <<"Unexpected token in JSON">>

\* postAdRecommend when fetch settles: "throw" when fetch rejected, "null"
\* for 204, else the body read it goes on to await (response.text() of a
\* non-2xx response, response.json() otherwise).
postAdRecommendOnResponse(r) ==
    IF ~r.net THEN "throw"
    ELSE IF r.status = 204 THEN "null"
    ELSE IF ~ResponseOk(r.status) THEN "text"
    ELSE "json"

\* postAdRecommend when response.json() settles: a body that does not parse
\* throws, any other body is returned as it is, the JSON value null too.
postAdRecommendOnBody(r) ==
    CASE r.body = "garbage" -> "throw"
      [] r.body = "null" -> "null"
      [] OTHER -> "ad"

\* The end of sendRequest: setAd with what postAdRecommend returned, or
\* setError with the message of what it threw; finally setLoading(false).
sendRequestEnd(result, msg) ==
    [ad |-> CASE result = "ad" -> Some("ad")
              [] result = "null" -> None
              [] OTHER -> ad,
     error |-> IF result = "throw" THEN Some(msg) ELSE error,
     loading |-> FALSE,
     outcome |-> IF result = "throw" THEN "failed" ELSE "ok"]

\* sendRequest(latitude, longitude) up to its await of fetch.
sendRequest(lat, lon) ==
    [pc |-> "fetch", latitude |-> lat, longitude |-> lon,
     resp |-> NoResp, outcome |-> "pending"]

\* fetchAd(): setLoading(true), setError(null); without geolocation call
\* sendRequest(null, null), otherwise start a getCurrentPosition request.
fetchAd(supported) ==
    [loading |-> TRUE, error |-> None,
     call |-> IF ~supported THEN sendRequest(Null, Null)
              ELSE [pc |-> "geo", latitude |-> Null, longitude |-> Null,
                    resp |-> NoResp, outcome |-> "pending"]]

\* The two callbacks of fetchAd's getCurrentPosition request.
fetchAdOnGeo(o) ==
    IF o.ok
    THEN [locationDenied |-> FALSE,
          call |-> sendRequest(o.pos.latitude, o.pos.longitude)]
    ELSE [locationDenied |-> IF o.code = PERMISSION_DENIED THEN TRUE
                             ELSE locationDenied,
          call |-> sendRequest(Null, Null)]

SetHook(i, e) ==
    /\ ad' = e.ad
    /\ error' = e.error
    /\ loading' = e.loading
    /\ fetchAds' = [fetchAds EXCEPT ![i].pc = "done", ![i].outcome = e.outcome]

\* fetchAd is called: by the mount effect (useEffect) the first time, by
\* refresh afterwards.
FetchAd ==
    /\ Len(fetchAds) < MaxFetchAds
    /\ mounted' = TRUE
    /\ LET f == fetchAd(geoSupported)
       IN /\ loading' = f.loading
          /\ error' = f.error
          /\ fetchAds' = Append(fetchAds, f.call)
    /\ UNCHANGED <<ad, locationDenied>>
    /\ UNCHANGED <<envVars, page, visibility, domVars, lastGeo, hbVars, initGeo,
                   ads, accepts, uncaught, events, leaveOccasions>>

\* A callback of a fetchAd call's getCurrentPosition request.
HookGeoSettle ==
    /\ \E i \in DOMAIN fetchAds, o \in HookGeoOutcomes :
         /\ fetchAds[i].pc = "geo"
         /\ LET g == fetchAdOnGeo(o)
            IN /\ locationDenied' = g.locationDenied
               /\ fetchAds' = [fetchAds EXCEPT ![i] = g.call]
    /\ UNCHANGED <<mounted, ad, loading, error>>
    /\ UNCHANGED <<envVars, page, visibility, domVars, lastGeo, hbVars, initGeo,
                   ads, accepts, uncaught, events, leaveOccasions>>

\* postAdRecommend's fetch settles.
HookResponse ==
    /\ \E i \in DOMAIN fetchAds, r \in AdResponses :
         /\ fetchAds[i].pc = "fetch"
         /\ LET x == postAdRecommendOnResponse(r)
            IN IF x \in {"text", "json"}
               THEN /\ fetchAds' = [fetchAds EXCEPT ![i].pc = x, ![i].resp = r]
                    /\ UNCHANGED <<ad, loading, error>>
               ELSE SetHook(i, sendRequestEnd(x, ErrFetch))
    /\ UNCHANGED <<mounted, locationDenied>>
    /\ UNCHANGED <<envVars, page, visibility, domVars, lastGeo, hbVars, initGeo,
                   ads, accepts, uncaught, events, leaveOccasions>>

\* postAdRecommend's response.text() settles: the error is thrown with the
\* status when the text was read, the read's own error otherwise.
HookText ==
    /\ \E i \in DOMAIN fetchAds, read \in BOOLEAN :
         /\ fetchAds[i].pc = "text"
         /\ SetHook(i, sendRequestEnd("throw",
                IF read THEN ErrHttp(fetchAds[i].resp.status) ELSE ErrBody))
    /\ UNCHANGED <<mounted, locationDenied>>
    /\ UNCHANGED <<envVars, page, visibility, domVars, lastGeo, hbVars, initGeo,
                   ads, accepts, uncaught, events, leaveOccasions>>

\* postAdRecommend's response.json() settles.
HookJson ==
    /\ \E i \in DOMAIN fetchAds :
         /\ fetchAds[i].pc = "json"
         /\ SetHook(i, sendRequestEnd(postAdRecommendOnBody(fetchAds[i].resp),
                                      ErrJson))
    /\ UNCHANGED <<mounted, locationDenied>>
    /\ UNCHANGED <<envVars, page, visibility, domVars, lastGeo, hbVars, initGeo,
                   ads, accepts, uncaught, events, leaveOccasions>>

\* Page load and ad lookup.
NextLoad ==
    \/ DOMContentLoaded
    \/ InitGeoSettle
    \/ AdResponse
    \/ AdBody

\* Accept, heartbeat and page lifecycle.
NextSession ==
    \/ DOMContentLoaded
    \/ Click
    \/ AcceptGeoSettle
    \/ AcceptResponse
    \/ AcceptJson
    \/ TimerTick
    \/ PingGeoSettle
    \/ PingFetchSettle
    \/ Hide
    \/ Show
    \/ Close

\* The useAdRecommendation hook of a mounted component.
NextHook ==
    \/ FetchAd
    \/ HookGeoSettle
    \/ HookResponse
    \/ HookText
    \/ HookJson

Next == NextLoad \/ NextSession \/ NextHook

\* The whole page.
Spec == Init /\ [][Next]_vars

\* The ad lookup writes status, panels, ads and initGeo and reads nothing
\* else; accept, heartbeat and lifecycle read and write none of these four
\* apart from DOMContentLoaded.  The two halves are therefore explored
\* apart: the load half over every panel markup with the user idle, the
\* session half with all panels hidden and the ad lookup left pending.
HiddenPanels == [adCard |-> "none", empty |-> "none", error |-> "none"]
SpecLoad == Init /\ [][NextLoad]_vars
SpecSession == InitWith({HiddenPanels}) /\ [][NextSession]_vars

\* The hook reads nothing of the page but navigator.geolocation and writes
\* only its own state, so it is explored on its own.
InitHook ==
    InitWith({HiddenPanels}) /\ variant = "portal" /\ beaconSupported = TRUE
SpecHook == InitHook /\ [][NextHook]_vars

\* Fairness: getCurrentPosition is given timeout: 5000, so one of its two
\* callbacks runs; a fetch and a body read settle, with a response or with
\* a network error.  For the session it is enough that the event loop, as
\* long as some settled callback is waiting, runs one of them.
LiveLoad ==
    /\ SpecLoad
    /\ WF_vars(DOMContentLoaded)
    /\ WF_vars(InitGeoSettle)
    /\ WF_vars(AdResponse)
    /\ WF_vars(AdBody)
LiveSession ==
    /\ SpecSession
    /\ WF_vars(\/ DOMContentLoaded
               \/ AcceptGeoSettle
               \/ AcceptResponse
               \/ AcceptJson
               \/ PingGeoSettle
               \/ PingFetchSettle)

\* ------------------------------------------------------------------ claims
CountIn(seq, Test(_)) == Cardinality({i \in DOMAIN seq : Test(seq[i])})
IsStartPing(r) == r.origin = "start"
IsLeave(r) == r.event = "leave"

\* postVisitPing("ping") calls made by startVisitPingLoop, sent or waiting.
StartPings == CountIn(wire, IsStartPing) + CountIn(pings, IsStartPing)
\* postVisitPing("leave") calls, sent or waiting.
LeaveCalls == CountIn(wire, IsLeave) + CountIn(pings, IsLeave)

\* C1: however often startVisitPingLoop is called, at most one repeating
\* timer is armed, start issued exactly one immediate ping, and each of the
\* two observers is registered exactly once; before the first call there is
\* none of these.
C1_HeartbeatStartedOnce ==
    IF startCalls = 0
    THEN /\ visitPingTimer = Null
         /\ intervals = 0 /\ StartPings = 0
         /\ unloadObservers = 0 /\ visibilityObservers = 0
    ELSE /\ visitPingTimer # Null
         /\ intervals = 1 /\ StartPings = 1
         /\ unloadObservers = 1 /\ visibilityObservers = 1

\* startVisitPingLoop has been called a second time.
C1_Witness == startCalls >= 2 /\ intervals = 1

\* C2: with the heartbeat running, every occasion on which the page is
\* hidden or closed issues exactly one Leave, and a Leave goes through
\* sendBeacon whenever sendBeacon exists.
C2_OneLeavePerHide ==
    /\ LeaveCalls = leaveOccasions
    /\ \A i \in DOMAIN wire :
         wire[i].event = "leave"
            => wire[i].transport = IF beaconSupported THEN "beacon" ELSE "fetch"

PendingAccepts == {i \in DOMAIN accepts : accepts[i].pc # "done"}

\* C3: at most one acceptPortal call is pending and at most one accept POST
\* is in flight, and while a call is pending the button is disabled.
C3_OneAcceptInFlight ==
    /\ Cardinality(PendingAccepts) <= 1
    /\ Cardinality({i \in DOMAIN accepts : accepts[i].pc = "fetch"}) <= 1
    /\ PendingAccepts # {} => btnDisabled

\* An accept POST is in flight while the user could click again.
C3_Witness ==
    /\ \E i \in DOMAIN accepts : accepts[i].pc = "fetch"
    /\ page = "alive" /\ visibility = "visible" /\ events < MaxEvents

Contains(msg, piece) == \E i \in DOMAIN msg : msg[i] = piece
ShowsDistance(msg, d) ==
    \E i \in 1..(Len(msg) - 1) : msg[i] = ToString(d) /\ msg[i + 1] = "m"

\* C4: in portal.js, when the body of a 2xx accept response has ok true,
\* the step that reads it calls startVisitPingLoop, leaves the timer armed
\* and shows a success text: with a venue the text holds the venue's name
\* and, when the distance is known, the distance followed by "m"; without a
\* venue it is the unattributed success text.
C4_OkTrueStartsHeartbeat ==
    [][\A i \in DOMAIN accepts :
         ( /\ variant = "portal"
           /\ accepts[i].pc = "json"
           /\ i \in DOMAIN accepts'
           /\ accepts'[i].pc = "done"
           /\ accepts'[i].resp.body.parse = "object"
           /\ accepts'[i].resp.body.ok = "true" )
         => /\ startCalls' = startCalls + 1
            /\ visitPingTimer' # Null
            /\ intervals' = 1
            /\ acceptStatus'[1] = "accepted"
            /\ LET v == accepts'[i].resp.body.venue
               IN IF v # None
                  THEN /\ Contains(acceptStatus', v[1].name)
                       /\ v[1].distance_m # Null
                            => ShowsDistance(acceptStatus', v[1].distance_m)
                  ELSE acceptStatus' = MsgOkNoVenue]_vars

\* An accept without venue succeeded and the heartbeat runs.
C4_Witness ==
    /\ variant = "portal"
    /\ acceptStatus = MsgOkNoVenue
    /\ visitPingTimer # Null
    /\ startCalls = 1

VisiblePanels == {p \in {"adCard", "empty", "error"} : panels[p] = "block"}
PanelOf(outcome) ==
    CASE outcome = "Found" -> "adCard"
      [] outcome = "Empty" -> "empty"
      [] OTHER -> "error"

\* C5: a requestAd call that has returned ended in one of Found, Empty and
\* Error, and exactly the panel of that outcome is visible, whatever the
\* coordinates, the response and the panels before.
C5_OneAdState ==
    \A i \in DOMAIN ads :
        ads[i].pc = "done"
           => /\ ads[i].outcome \in {"Found", "Empty", "Error"}
              /\ VisiblePanels = {PanelOf(ads[i].outcome)}

\* requestAd(null, null) got a 2xx response and still ended in Error.
C5_Witness ==
    \E i \in DOMAIN ads :
        /\ ads[i].pc = "done"
        /\ ads[i].latitude = Null /\ ads[i].longitude = Null
        /\ ads[i].outcome = "Error"
        /\ ads[i].resp.status = 200

C7_OneAdRequestAfterGeo ==
    /\ Len(ads) <= 1
    /\ (page = "loading" \/ initGeo = "pending") => ads = <<>>
    /\ (page # "loading" /\ initGeo # "pending") => Len(ads) = 1

\* The acquisition gave a fix and the one ad request has returned.
C7_Witness ==
    /\ initGeo = "fixed"
    /\ Len(ads) = 1
    /\ ads[1].pc = "done"
    /\ ads[1].latitude # Null

\* C8: whenever the repeating timer is armed the immediate ping has been
\* handed to the network, and a timer-driven ping on the wire is preceded
\* by the immediate one.
C8_TimerArmedAfterImmediatePing ==
    /\ visitPingTimer # Null => \E i \in DOMAIN wire : wire[i].origin = "start"
    /\ \A j \in DOMAIN wire :
         wire[j].origin = "timer"
            => \E i \in 1..(j - 1) : wire[i].origin = "start"

\* C9: a disabled accept button is enabled again (unless the page is closed
\* first), and whenever no acceptPortal call is pending it is enabled.
C9_AcceptButtonReenabled ==
    /\ btnDisabled ~> (~btnDisabled \/ page = "gone")
    /\ [](PendingAccepts = {} => ~btnDisabled)

\* An acceptPortal call ended in its catch block and the button is enabled.
C9_Witness ==
    /\ accepts # <<>>
    /\ PendingAccepts = {}
    /\ acceptStatus = acceptPortalCatch(variant)
    /\ ~btnDisabled

\* C10: tryGetGeo never rejects, and an acceptPortal call whose
\* acquisition failed, or that has no geolocation, has posted the accept
\* request with three nulls; while that request is in flight the text is
\* still the submitting text.
C10_GeoFailureDoesNotBlockAccept ==
    \A i \in DOMAIN accepts :
        /\ accepts[i].geo # "rejected"
        /\ accepts[i].geo \in {"failed", "unsupported"}
             => /\ accepts[i].request = Some(geoPayload(None))
                /\ accepts[i].pc = "fetch" => acceptStatus = MsgSubmitting

\* The acquisition of an acceptPortal call failed and its POST is in flight.
C10_Witness ==
    \E i \in DOMAIN accepts :
        /\ accepts[i].geo = "failed"
        /\ accepts[i].pc = "fetch"
        /\ accepts[i].request = Some(geoPayload(None))

\* C11: every successful acquisition leaves its fix in lastGeo: after the
\* first fix of initPortal the cache is filled, and so it is after the
\* acquisition of an acceptPortal call gave a fix.
C11_EveryFixIsCached ==
    /\ initGeo = "fixed" => lastGeo # None
    /\ \A i \in DOMAIN accepts : accepts[i].geo = "acquired" => lastGeo # None

\* The step in which the getCurrentPosition request of a tryGetGeo call
\* ends: the call of acceptPortal i, or one of a postVisitPing.
AcceptAcquired(i) ==
    /\ i \in DOMAIN accepts /\ accepts[i].pc = "geo"
    /\ i \in DOMAIN accepts' /\ accepts'[i].pc = "fetch"
PingAcquired == Len(pings') = Len(pings) - 1

\* C12: lastGeo changes only in a step in which an acquisition succeeds,
\* and then to the fix of that acquisition, which is the fix the caller
\* goes on with; a failed acquisition leaves it as it was; once non-null it
\* is never null again.
C12_CacheWrittenOnlyBySuccess ==
    [][ /\ lastGeo # None => lastGeo' # None
        /\ lastGeo' # lastGeo
             => \/ \E i \in DOMAIN accepts :
                     AcceptAcquired(i) /\ accepts'[i].geo = "acquired"
                \/ PingAcquired /\ wire'[Len(wire')].latitude # Null
        /\ \A i \in DOMAIN accepts :
             AcceptAcquired(i)
                => IF accepts'[i].geo = "acquired"
                   THEN /\ lastGeo' # None
                        /\ accepts'[i].request = Some(geoPayload(lastGeo'))
                   ELSE lastGeo' = lastGeo
        /\ PingAcquired
             => LET sent == wire'[Len(wire')]
                IN IF sent.latitude # Null
                   THEN /\ lastGeo' # None
                        /\ sent.latitude = lastGeo'[1].latitude
                        /\ sent.longitude = lastGeo'[1].longitude
                        /\ sent.accuracy_m = lastGeo'[1].accuracy_m
                   ELSE lastGeo' = lastGeo ]_vars

\* The acquisition of an acceptPortal call failed after another call's
\* acquisition had filled the cache, and the cache is still filled.
C12_Witness ==
    /\ lastGeo # None
    /\ \E i \in DOMAIN accepts :
         accepts[i].geo = "failed" /\ accepts[i].pc = "fetch"

\* C13: a requestAd call that has returned after a 204 response shows the
\* empty panel and not the error panel; after any other response outside
\* 200..299 it shows the error panel and the status text of a failed ad
\* load; after a 2xx response whose body parses to an ad it shows the ad
\* card.
C13_AdResponsePriority ==
    \A i \in DOMAIN ads :
        (ads[i].pc = "done" /\ ads[i].resp.net)
           => /\ ads[i].resp.status = 204
                   => /\ ads[i].outcome = "Empty"
                      /\ panels.empty = "block" /\ panels.error = "none"
              /\ ~ResponseOk(ads[i].resp.status)
                   => /\ ads[i].outcome = "Error"
                      /\ panels.error = "block"
                      /\ status = "ad load failed"
              /\ (ads[i].resp.status = 200 /\ ads[i].resp.body = "ad")
                   => /\ ads[i].outcome = "Found"
                      /\ panels.adCard = "block"

\* The ad endpoint answered 204 and the empty panel is shown.
C13_Witness ==
    \E i \in DOMAIN ads :
        /\ ads[i].pc = "done"
        /\ ads[i].resp.net /\ ads[i].resp.status = 204
        /\ panels.empty = "block"

\* The step in which acceptPortal call i returns.
AcceptReturns(i) ==
    /\ i \in DOMAIN accepts /\ accepts[i].pc \in {"geo", "fetch", "json"}
    /\ i \in DOMAIN accepts' /\ accepts'[i].pc = "done"
HeartbeatUntouched ==
    /\ startCalls' = startCalls
    /\ visitPingTimer' = visitPingTimer
    /\ intervals' = intervals
    /\ pings' = pings /\ wire' = wire
TransportError(r) == ~r.net \/ ~ResponseOk(r.status)
ServerRejection(r) ==
    r.net /\ ResponseOk(r.status) /\ r.body.parse = "object" /\ r.body.ok = "false"

\* C14: in portal.js an acceptPortal call that returns after a rejected
\* fetch or a response outside 200..299 shows the text of the catch block,
\* one that returns after a 2xx body with ok false shows the text of the
\* else branch; both texts are failure texts, they differ, and neither step
\* touches the heartbeat.
C14_RejectionDistinctFromTransportError ==
    [][\A i \in DOMAIN accepts :
         (variant = "portal" /\ AcceptReturns(i))
            => /\ TransportError(accepts'[i].resp)
                    => /\ acceptStatus' = MsgFailed
                       /\ acceptStatus' # MsgRejected
                       /\ acceptStatus'[1] = "accept failed"
                       /\ HeartbeatUntouched
               /\ ServerRejection(accepts'[i].resp)
                    => /\ acceptStatus' = MsgRejected
                       /\ acceptStatus' # MsgFailed
                       /\ acceptStatus'[1] = "accept failed"
                       /\ HeartbeatUntouched]_vars

\* The server answered 200 with ok false and the rejection text is shown.
C14_Witness ==
    /\ variant = "portal"
    /\ acceptStatus = MsgRejected
    /\ \E i \in DOMAIN accepts :
         accepts[i].pc = "done" /\ ServerRejection(accepts[i].resp)

\* A step of the heartbeat: a timer callback, the end of a ping's
\* acquisition or fetch, or a lifecycle event handled by the observers.
HeartbeatStep ==
    TimerTick \/ PingGeoSettle \/ PingFetchSettle \/ Hide \/ Show \/ Close
HeartbeatCalls == Len(wire) + Len(pings)

\* C15: no step of the heartbeat changes the status line, the accept
\* status, the panels or the accept button; the end of a ping's fetch,
\* delivered or not, sends nothing again; the armed timer stays armed in
\* every step, and every timer callback makes one more ping call.
C15_HeartbeatFailureIsSilent ==
    [][ /\ HeartbeatStep => UNCHANGED domVars
        /\ PingFetchSettle
             => /\ wire' = wire /\ pings' = pings
                /\ pingFetches' = pingFetches - 1
        /\ visitPingTimer # Null
             => /\ visitPingTimer' = visitPingTimer
                /\ intervals' = intervals
        /\ TimerTick
             => /\ HeartbeatCalls' = HeartbeatCalls + 1
                /\ \/ wire' # wire /\ wire'[Len(wire')].event = "ping"
                   \/ pings' # pings /\ pings'[Len(pings')].event = "ping" ]_vars

\* A ping's fetch was rejected, the timer is still armed and a ping of a
\* timer callback went out.
C15_Witness ==
    /\ uncaught
    /\ visitPingTimer # Null /\ intervals = 1
    /\ \E j \in DOMAIN wire : wire[j].origin = "timer"

\* C16: no promise is ever rejected without a handler: every failure of a
\* geolocation request, a fetch or a body read is caught by the operation
\* that made it.
C16_NoUncaughtRejection == ~uncaught

\* C17: every postVisitPing("leave") call made by an observer has handed
\* its request to a transport by the end of the task that handles the
\* event: no Leave is left waiting, so none is lost when the page is
\* destroyed.
C17_LeaveSentWithinEvent ==
    \A i \in DOMAIN pings : pings[i].event # "leave"

\* C18: with the acceptPortal of part_000, whenever the success text is
\* shown startVisitPingLoop has been called and the timer is armed.
C18_Part000SuccessStartsHeartbeat ==
    (variant = "part000" /\ acceptStatus = MsgOkPlain)
        => (startCalls >= 1 /\ visitPingTimer # Null)

\* The requests handed to a transport in the current step.
SentNow == {j \in DOMAIN wire' : j > Len(wire)}

\* C19: a heartbeat request carries the fix that lastGeo holds at the
\* moment the request is handed to the transport, and nulls only when
\* lastGeo is null at that moment.
C19_PayloadCarriesLastKnownFix ==
    [][\A j \in SentNow :
         LET p == geoPayload(lastGeo')
         IN /\ wire'[j].latitude = p.latitude
            /\ wire'[j].longitude = p.longitude
            /\ wire'[j].accuracy_m = p.accuracy_m]_vars

GeoWaits(calls) == Cardinality({i \in DOMAIN calls : calls[i].pc = "geo"})

\* C20: in a state where lastGeo is non-null no step starts an
\* acquisition: no postVisitPing call and no acceptPortal call begins to
\* wait for tryGetGeo; a call made with a cached fix posts that fix.
C20_AcquisitionIsLazy ==
    [][lastGeo # None
         => /\ Len(pings') <= Len(pings)
            /\ GeoWaits(accepts') <= GeoWaits(accepts)
            /\ \A j \in SentNow :
                 (TimerTick \/ Hide \/ Close)
                    => wire'[j].latitude = lastGeo[1].latitude
            /\ Click /\ variant = "portal"
                 => accepts'[Len(accepts')].request = Some(geoPayload(lastGeo))]_vars

\* An acceptPortal call found the cache filled and posted the cached fix
\* without an acquisition of its own.
C20_Witness ==
    /\ lastGeo # None
    /\ \E i \in DOMAIN accepts :
         /\ accepts[i].geo = "cached" /\ accepts[i].pc = "fetch"
         /\ accepts[i].request = Some(geoPayload(lastGeo))
    /\ \E j \in DOMAIN wire :
         wire[j].origin = "timer" /\ wire[j].latitude # Null

\* A 2xx response whose body did not parse.
ParseFailure(r) == r.net /\ ResponseOk(r.status) /\ r.body.parse = "garbage"

\* C21: a call that returned after a 2xx response whose body does not parse
\* ended as after a transport error: requestAd in Error, acceptPortal (of
\* either build) showing the text of its catch block, a failure text and
\* never a success text.
C21_ParseFailureIsTransportError ==
    /\ \A i \in DOMAIN ads :
         (ads[i].pc = "done" /\ ads[i].resp.net /\ ads[i].resp.status = 200
            /\ ads[i].resp.body = "garbage")
            => ads[i].outcome = "Error"
    /\ \A i \in DOMAIN accepts :
         (accepts[i].pc = "done" /\ ParseFailure(accepts[i].resp))
            => /\ acceptStatus = acceptPortalCatch(variant)
               /\ acceptStatus[1] = "accept failed"

\* The heartbeat has left no trace: nothing sent or waiting, no timer, no
\* observer.
HeartbeatIdle ==
    /\ visitPingTimer = Null /\ intervals = 0
    /\ unloadObservers = 0 /\ visibilityObservers = 0
    /\ wire = <<>> /\ pings = <<>> /\ pingFetches = 0
Accepted(r) ==
    r.net /\ ResponseOk(r.status) /\ r.body.parse = "object" /\ r.body.ok = "true"

\* C22: the heartbeat stays idle (no Ping, no Leave, no timer, no observer)
\* up to the step in which an acceptPortal call reads a 2xx body with ok
\* true; hiding or closing the page before that sends nothing.
C22_NoHeartbeatBeforeAcceptance ==
    /\ [](visitPingTimer = Null => HeartbeatIdle)
    /\ [][(HeartbeatIdle /\ ~HeartbeatIdle')
            => \E i \in DOMAIN accepts :
                 AcceptReturns(i) /\ Accepted(accepts'[i].resp)]_vars

\* The page was hidden after the server rejected the accept, and nothing
\* was sent.
C22_Witness ==
    /\ visibility = "hidden"
    /\ HeartbeatIdle
    /\ acceptStatus = MsgRejected
    /\ \E i \in DOMAIN accepts : accepts[i].pc = "done"

LeaveSent == \E i \in DOMAIN wire : wire[i].event = "leave"

\* C23: once startVisitPingLoop has run, the timer handle stays set, the
\* one interval stays armed and the two observers stay registered in every
\* later step; a timer callback can still run after a Leave was sent, and
\* every timer callback makes a postVisitPing("ping") call.
C23_TimerNeverCleared ==
    /\ [](startCalls >= 1 => (visitPingTimer # Null /\ intervals = 1))
    /\ []((LeaveSent /\ Running /\ events < MaxEvents) => ENABLED TimerTick)
    /\ [][ /\ visitPingTimer # Null
               => /\ visitPingTimer' = visitPingTimer
                  /\ intervals' = intervals
                  /\ unloadObservers' = unloadObservers
                  /\ visibilityObservers' = visibilityObservers
          /\ TimerTick
               => \/ /\ Len(wire') = Len(wire) + 1
                     /\ wire'[Len(wire')].event = "ping"
                     /\ wire'[Len(wire')].origin = "timer"
                  \/ /\ Len(pings') = Len(pings) + 1
                     /\ pings'[Len(pings')] = [event |-> "ping", origin |-> "timer"]
        ]_vars

\* A Ping of a timer callback went out after a Leave.
C23_Witness ==
    \E i \in DOMAIN wire, j \in DOMAIN wire :
        /\ i < j
        /\ wire[i].event = "leave"
        /\ wire[j].event = "ping" /\ wire[j].origin = "timer"

FetchAdsSettled ==
    fetchAds # <<>> /\ \A i \in DOMAIN fetchAds : fetchAds[i].pc = "done"

\* C24: once every fetchAd call of the hook has settled, loading is false
\* and error is non-null only if the call started last failed.
C24_HookReflectsLatestRequest ==
    FetchAdsSettled
        => /\ loading = FALSE
           /\ error # None => fetchAds[Len(fetchAds)].outcome = "failed"

====
